---------------------------- MODULE Spec2Model ----------------------------
(***************************************************************************)
(* Model of blender_ramen's graph capture engine:                          *)
(*   - the capture context (src/src/core/context.rs): a node registry and  *)
(*     a stack of scopes, mutated by name;                                 *)
(*   - the graph builder (src/src/core/tree.rs, NodeTree::build) with its  *)
(*     panic guard, and the script it renders;                             *)
(*   - the repeat construct (src/src/core/zone.rs, repeat_zone);           *)
(*   - the project dependency resolver (src/src/core/project.rs).          *)
(*                                                                         *)
(* Text is modelled structurally: an expression is a record, a script is a *)
(* sequence of statement records, a name or script of a project item is a  *)
(* sequence of characters (so that substring search is really computed).   *)
(***************************************************************************)
EXTENDS Integers, Sequences, FiniteSets, TLC

VARIABLES
    nodes,      \* BuildContext.nodes : name -> NodeData
    stack,      \* BuildContext.stack : sequence of scopes, a scope a sequence of names
    nextId,     \* number of node identities generated so far (uuid freshness)
    op,         \* the operation that produced this state
    ret,        \* what that operation returned (a Scope for exit_scope / take_root)
    log,        \* history: per open scope, the names add_node received while it was top
    closed,     \* history: the log of the scope that the last exit/take_root drained
    arg,        \* history: the name argument of the last update_* call (0 if none)
    was,        \* history: the scope-stack depth before the last operation
    nUpd,       \* number of update_* / append_custom_link calls made so far
    frames,     \* host call stack: the NodeTree::build and repeat_zone calls in progress
    unwinding,  \* TRUE while a panic is propagating
    code,       \* the script the last NodeTree::build returned
    owned,      \* identities of the nodes whose struct the host code holds
    popped,     \* history: the frame the last operation removed from frames
    unwound,    \* history: build frames the current panic has already left
    zinfo,      \* history: tuples given to / produced by the last repeat_zone step
    zlog,       \* history: per open scope, the repeat zones completed in it
    zclosed,    \* history: the zones completed in the scope the last build closed
    items,      \* BlenderProject.items : sequence of ProjectItem
    res,        \* what the last resolve_dependencies returned
    sent,       \* the scripts handed to send_to_blender so far
    declTree,   \* the NodeTree value the host is declaring sockets on
    threads     \* per thread building on the shared context: where its build
                \* stands, the nodes its closure made, the nodes it was returned

ctxVars  == <<nodes, stack, nextId>>
histVars == <<op, ret, log, closed, arg, was>>
buildVars == <<frames, unwinding, code, owned, popped, unwound, zinfo, zlog, zclosed>>
projVars == <<items, res, sent>>
declVars == <<declTree, threads>>
vars     == <<nodes, stack, nextId, op, ret, log, closed, arg, was, nUpd,
             frames, unwinding, code, owned, popped, unwound, zinfo, zlog, zclosed,
             items, res, sent, declTree, threads>>

---------------------------------------------------------------------------
(* Bounds of the model.                                                    *)
MaxNodes == 3       \* node identities generated in one behaviour
MaxDepth == 3       \* scope-stack depth explored
MaxUpdates == 1     \* update_* / append_custom_link calls made in one behaviour
MaxCalls == 2       \* builder-method calls made by the host program
MaxItems == 3       \* project items registered in one project
MaxSends == 1       \* scripts one project hands to the transport
MaxDecls == 2       \* sockets declared on one NodeTree

---------------------------------------------------------------------------
(* Finite maps (HashMap).                                                  *)
EmptyMap == [k \in {} |-> 0]

MapInsert(m, k, v) == [x \in (DOMAIN m) \cup {k} |-> IF x = k THEN v ELSE m[x]]

MapRemove(m, k) == [x \in (DOMAIN m) \ {k} |-> m[x]]

(* Sequence helpers.                                                       *)
Last(s) == s[Len(s)]

Front(s) == SubSeq(s, 1, Len(s) - 1)

RECURSIVE Flatten(_)
Flatten(ss) == IF ss = <<>> THEN <<>> ELSE Head(ss) \o Flatten(Tail(ss))

Range(s) == {s[i] : i \in DOMAIN s}

---------------------------------------------------------------------------
(* Value handles (NodeSocket) and expressions.                             *)
(* An expression text is one of: a literal, "<node>.outputs[<i>]", or an   *)
(* expression supplied by the host ("source_geo" in the tests).            *)
Expr(k, n, i) == [kind |-> k, node |-> n, idx |-> i]

LitExpr(v) == Expr("lit", 0, v)

OutExpr(n, i) == Expr("out", n, i)

SrcExpr(i) == Expr("src", 0, i)

new_literal(e) == [python_expr |-> e, is_literal |-> TRUE]

new_output(e) == [python_expr |-> e, is_literal |-> FALSE]

---------------------------------------------------------------------------
(* Statements of a rendered script.                                        *)
StNew(n, id) == [t |-> "new", node |-> n, idname |-> id]

StProp(n, k, v) == [t |-> "prop", node |-> n, key |-> k, val |-> v]

StInDefault(n, i, e) == [t |-> "in_default", node |-> n, idx |-> i, expr |-> e]

StOutDefault(n, i, e) == [t |-> "out_default", node |-> n, idx |-> i, expr |-> e]

StLink(e, n, i) == [t |-> "link", node |-> n, idx |-> i, expr |-> e]

StText(n) == [t |-> "text", node |-> n]

StPair(in, out) == [t |-> "pair", node |-> in, with |-> out]

StClear(out) == [t |-> "clear", node |-> out]

StItem(out, k) == [t |-> "item", node |-> out, idx |-> k]

StHeader(phase) == [t |-> "header", phase |-> phase]

StBlank == [t |-> "blank"]

StSetup(tree_type, name) == [t |-> "setup", tree_type |-> tree_type, name |-> name]

StSockIn(name, ty) == [t |-> "sock_in", name |-> name, ty |-> ty]

StSockDefault(e) == [t |-> "sock_default", expr |-> e]

StSockOut(name, ty) == [t |-> "sock_out", name |-> name, ty |-> ty]

---------------------------------------------------------------------------
(* NodeData (context.rs:5-27).                                             *)
NodeData_new(name, bl_idname) ==
    [name |-> name,
     bl_idname |-> bl_idname,
     properties |-> EmptyMap,
     inputs |-> EmptyMap,
     output_defaults |-> EmptyMap,
     post_creation_script |-> <<>>,
     custom_links_script |-> <<>>]

---------------------------------------------------------------------------
(* BuildContext (context.rs:90-165) as operations on a record              *)
(* [nodes, stack]; exit_scope and take_root also yield the returned Scope. *)
Ctx(ns, st) == [nodes |-> ns, stack |-> st]

BuildContext_new == Ctx(EmptyMap, << <<>> >>)

add_node_unlisted(c, data) == Ctx(MapInsert(c.nodes, data.name, data), c.stack)

add_node(c, data) ==
    Ctx(MapInsert(c.nodes, data.name, data),
        IF c.stack # <<>>
        THEN [c.stack EXCEPT ![Len(c.stack)] = Append(@, data.name)]
        ELSE c.stack)

update_property(c, name, key, val) ==
    IF name \in DOMAIN c.nodes
    THEN Ctx([c.nodes EXCEPT ![name].properties = MapInsert(@, key, val)], c.stack)
    ELSE c

update_input(c, name, index, val, is_literal) ==
    IF name \in DOMAIN c.nodes
    THEN Ctx([c.nodes EXCEPT ![name].inputs =
                  MapInsert(@, index, [expr |-> val, is_literal |-> is_literal])],
             c.stack)
    ELSE c

update_output_default(c, name, index, val) ==
    IF name \in DOMAIN c.nodes
    THEN Ctx([c.nodes EXCEPT ![name].output_defaults = MapInsert(@, index, val)], c.stack)
    ELSE c

update_post_creation_upsert(c, name, script) ==
    IF name \in DOMAIN c.nodes
    THEN Ctx([c.nodes EXCEPT ![name].post_creation_script = script], c.stack)
    ELSE Ctx(MapInsert(c.nodes, name,
                       [NodeData_new(name, "") EXCEPT !.post_creation_script = script]),
             c.stack)

update_post_creation(c, name, script) ==
    IF name \in DOMAIN c.nodes
    THEN Ctx([c.nodes EXCEPT ![name].post_creation_script = script], c.stack)
    ELSE c

append_custom_link(c, name, script) ==
    IF name \in DOMAIN c.nodes
    THEN Ctx([c.nodes EXCEPT ![name].custom_links_script = @ \o script], c.stack)
    ELSE c

enter_scope_replacing(c) == Ctx(c.nodes, Append(Front(c.stack), <<>>))

enter_scope_noop(c) == c

enter_scope(c) == Ctx(c.nodes, Append(c.stack, <<>>))

(* names.into_iter().filter_map(|name| nodes.remove(&name)).collect():     *)
(* the registry is consulted and shrunk name by name, in list order.       *)
RECURSIVE DrainReversed(_, _)
DrainReversed(names, reg) ==
    IF names = <<>> THEN [ret |-> <<>>, nodes |-> reg]
    ELSE LET h == Head(names)
         IN  IF h \in DOMAIN reg
             THEN LET r == DrainReversed(Tail(names), MapRemove(reg, h))
                  IN  [ret |-> Append(r.ret, reg[h]), nodes |-> r.nodes]
             ELSE DrainReversed(Tail(names), reg)

RECURSIVE DrainCloned(_, _)
DrainCloned(names, reg) ==
    IF names = <<>> THEN [ret |-> <<>>, nodes |-> reg]
    ELSE LET h == Head(names)
             r == DrainCloned(Tail(names), reg)
         IN  IF h \in DOMAIN reg
             THEN [ret |-> <<reg[h]>> \o r.ret, nodes |-> reg]
             ELSE r

RECURSIVE Drain(_, _)
Drain(names, reg) ==
    IF names = <<>> THEN [ret |-> <<>>, nodes |-> reg]
    ELSE LET h == Head(names)
         IN  IF h \in DOMAIN reg
             THEN LET r == Drain(Tail(names), MapRemove(reg, h))
                  IN  [ret |-> <<reg[h]>> \o r.ret, nodes |-> r.nodes]
             ELSE Drain(Tail(names), reg)

exit_scope_unguarded(c) ==
    LET d == Drain(Last(c.stack), c.nodes)
    IN  [ctx |-> Ctx(d.nodes, Front(c.stack)), ret |-> d.ret]

exit_scope(c) ==
    IF Len(c.stack) > 1
    THEN LET d == Drain(Last(c.stack), c.nodes)
         IN  [ctx |-> Ctx(d.nodes, Front(c.stack)), ret |-> d.ret]
    ELSE [ctx |-> c, ret |-> <<>>]

take_root_top(c) ==
    LET d == Drain(Last(c.stack), c.nodes)
    IN  [ctx |-> Ctx(d.nodes, [c.stack EXCEPT ![Len(c.stack)] = <<>>]), ret |-> d.ret]

take_root(c) ==
    LET d == Drain(c.stack[1], c.nodes)
    IN  [ctx |-> Ctx(d.nodes, [c.stack EXCEPT ![1] = <<>>]), ret |-> d.ret]

---------------------------------------------------------------------------
(* Rendering of one node (context.rs:29-86).  A HashMap is iterated in an  *)
(* order the program does not control: pOrd, iOrd and oOrd are the orders  *)
(* in which this node's three maps happen to be visited.                   *)
Orderings(S) ==
    {s \in [1..Cardinality(S) -> S] : \A i, j \in DOMAIN s : i # j => s[i] # s[j]}

RECURSIVE PropLines(_, _)
PropLines(node, ord) ==
    IF ord = <<>> THEN <<>>
    ELSE <<StProp(node.name, Head(ord), node.properties[Head(ord)])>>
         \o PropLines(node, Tail(ord))

RECURSIVE InputDefaultLines(_, _)
InputDefaultLines(node, ord) ==
    IF ord = <<>> THEN <<>>
    ELSE (IF node.inputs[Head(ord)].is_literal
          THEN <<StInDefault(node.name, Head(ord), node.inputs[Head(ord)].expr)>>
          ELSE <<>>)
         \o InputDefaultLines(node, Tail(ord))

RECURSIVE OutputDefaultLines(_, _)
OutputDefaultLines(node, ord) ==
    IF ord = <<>> THEN <<>>
    ELSE <<StOutDefault(node.name, Head(ord), node.output_defaults[Head(ord)])>>
         \o OutputDefaultLines(node, Tail(ord))

RECURSIVE InputLinkLines(_, _)
InputLinkLines(node, ord) ==
    IF ord = <<>> THEN <<>>
    ELSE (IF ~node.inputs[Head(ord)].is_literal
          THEN <<StLink(node.inputs[Head(ord)].expr, node.name, Head(ord))>>
          ELSE <<>>)
         \o InputLinkLines(node, Tail(ord))

creation_script(node, pOrd, iOrd, oOrd) ==
    IF node.bl_idname = "" THEN <<>>
    ELSE <<StNew(node.name, node.bl_idname)>>
         \o PropLines(node, pOrd)
         \o InputDefaultLines(node, iOrd)
         \o OutputDefaultLines(node, oOrd)
         \o node.post_creation_script

links_script_unflagged(node, iOrd) ==
    IF node.bl_idname = "" THEN <<>>
    ELSE [k \in DOMAIN iOrd |-> StLink(node.inputs[iOrd[k]].expr, node.name, iOrd[k])]
         \o node.custom_links_script

links_script(node, iOrd) ==
    IF node.bl_idname = "" THEN <<>>
    ELSE InputLinkLines(node, iOrd) \o node.custom_links_script

NodeOrders(node) ==
    [p : Orderings(DOMAIN node.properties),
     i : Orderings(DOMAIN node.inputs),
     o : Orderings(DOMAIN node.output_defaults)]

---------------------------------------------------------------------------
(* NodeTree (tree.rs:26-86) and the script of one build (tree.rs:225-306). *)
NodeTree_new(name, tree_type) ==
    [name |-> name, tree_type |-> tree_type, inputs |-> <<>>, outputs |-> <<>>]

GroupKinds == {"GeometryGroup", "ShaderGroup", "CompositorGroup"}

TreeKinds == GroupKinds \cup {"Geometry", "Shader", "Compositor"}

TreeInput(name, blender_type, has_default, default_expr) ==
    [name |-> name, blender_type |-> blender_type,
     has_default |-> has_default, default_expr |-> default_expr]

TreeOutput(name, blender_type) == [name |-> name, blender_type |-> blender_type]

(* with_input, with_input_default, with_output (tree.rs:88-139): a failed  *)
(* assert! panics, and the NodeTree, moved into the call, is dropped.      *)
with_input(self, name, blender_type) ==
    IF self.tree_type \in GroupKinds
    THEN [ok |-> TRUE,
          tree |-> [self EXCEPT !.inputs =
                       Append(@, TreeInput(name, blender_type, FALSE, LitExpr(0)))]]
    ELSE [ok |-> FALSE]

with_input_default_unchecked(self, name, blender_type, default_val) ==
    IF self.tree_type \notin GroupKinds THEN [ok |-> FALSE]
    ELSE [ok |-> TRUE,
          tree |-> [self EXCEPT !.inputs =
                       Append(@, TreeInput(name, blender_type, TRUE,
                                           default_val.python_expr))]]

with_input_default(self, name, blender_type, default_val) ==
    IF self.tree_type \notin GroupKinds THEN [ok |-> FALSE]
    ELSE IF ~default_val.is_literal THEN [ok |-> FALSE]
    ELSE [ok |-> TRUE,
          tree |-> [self EXCEPT !.inputs =
                       Append(@, TreeInput(name, blender_type, TRUE,
                                           default_val.python_expr))]]

with_output(self, name, blender_type) ==
    IF self.tree_type \in GroupKinds
    THEN [ok |-> TRUE,
          tree |-> [self EXCEPT !.outputs = Append(@, TreeOutput(name, blender_type))]]
    ELSE [ok |-> FALSE]

RECURSIVE SocketInLines(_)
SocketInLines(ins) ==
    IF ins = <<>> THEN <<>>
    ELSE <<StSockIn(Head(ins).name, Head(ins).blender_type)>>
         \o (IF Head(ins).has_default THEN <<StSockDefault(Head(ins).default_expr)>> ELSE <<>>)
         \o SocketInLines(Tail(ins))

RECURSIVE SocketOutLines(_)
SocketOutLines(outs) ==
    IF outs = <<>> THEN <<>>
    ELSE <<StSockOut(Head(outs).name, Head(outs).blender_type)>>
         \o SocketOutLines(Tail(outs))

append_sockets(tree) == SocketInLines(tree.inputs) \o SocketOutLines(tree.outputs)

generate_setup_script(tree) ==
    <<StSetup(tree.tree_type, tree.name)>> \o append_sockets(tree)

RECURSIVE CreationPhase(_, _)
CreationPhase(ns, ords) ==
    IF ns = <<>> THEN <<>>
    ELSE creation_script(Head(ns), Head(ords).p, Head(ords).i, Head(ords).o)
         \o CreationPhase(Tail(ns), Tail(ords))

RECURSIVE PostCreationPhase(_)
PostCreationPhase(ns) ==
    IF ns = <<>> THEN <<>>
    ELSE (IF Head(ns).post_creation_script # <<>>
          THEN Head(ns).post_creation_script \o <<StBlank>>
          ELSE <<>>)
         \o PostCreationPhase(Tail(ns))

RECURSIVE LinkingPhase(_, _)
LinkingPhase(ns, ords) ==
    IF ns = <<>> THEN <<>>
    ELSE links_script(Head(ns), Head(ords).i) \o LinkingPhase(Tail(ns), Tail(ords))

build_script(tree, my_nodes, ords) ==
    generate_setup_script(tree)
    \o <<StHeader("creation")>> \o CreationPhase(my_nodes, ords)
    \o <<StHeader("post_creation")>> \o PostCreationPhase(my_nodes)
    \o <<StHeader("linking")>> \o LinkingPhase(my_nodes, ords)

(* The visiting orders one build may meet: one choice per node.            *)
OrderChoices(ns) ==
    {f \in [DOMAIN ns -> UNION {NodeOrders(ns[k]) : k \in DOMAIN ns}] :
        \A k \in DOMAIN ns : f[k] \in NodeOrders(ns[k])}

(* PanicGuard::drop (tree.rs:270-276).                                     *)
guard_drop_disarmed(c, is_panicking) == c

guard_drop_pop_only(c, is_panicking) ==
    IF is_panicking THEN Ctx(c.nodes, Front(c.stack)) ELSE c

guard_drop(c, is_panicking) ==
    IF is_panicking THEN exit_scope(c).ctx ELSE c

---------------------------------------------------------------------------
(* impl_node_op! (ops.rs:17-30): an arithmetic operator on two handles     *)
(* makes a math node under the fresh name, sets its operation, binds the   *)
(* left operand to slot 0 and the right one to slot 1, and hands back the  *)
(* node's output.                                                          *)
impl_node_op_swapped(c, name, op_enum, self, rhs) ==
    LET c1 == add_node(c, NodeData_new(name, "ShaderNodeMath"))
        c2 == update_property(c1, name, "operation", op_enum)
        c3 == update_input(c2, name, 0, rhs.python_expr, rhs.is_literal)
        c4 == update_input(c3, name, 1, self.python_expr, self.is_literal)
    IN  [ctx |-> c4, out |-> new_output(OutExpr(name, 0))]

impl_node_op(c, name, op_enum, self, rhs) ==
    LET c1 == add_node(c, NodeData_new(name, "ShaderNodeMath"))
        c2 == update_property(c1, name, "operation", op_enum)
        c3 == update_input(c2, name, 0, self.python_expr, self.is_literal)
        c4 == update_input(c3, name, 1, rhs.python_expr, rhs.is_literal)
    IN  [ctx |-> c4, out |-> new_output(OutExpr(name, 0))]

---------------------------------------------------------------------------
(* repeat_zone (zone.rs).  A tuple is a sequence of handles; element k of  *)
(* the sequence is the macro's position $idx = k - 1.                      *)
MaxArity == 6

add_custom_link_always(c, src, dst_node, index) ==
    append_custom_link(c, dst_node, <<StLink(src.python_expr, dst_node, index)>>)

add_custom_link(c, src, dst_node, index) ==
    IF src.is_literal
    THEN append_custom_link(c, dst_node, <<StInDefault(dst_node, index, src.python_expr)>>)
    ELSE append_custom_link(c, dst_node, <<StLink(src.python_expr, dst_node, index)>>)

setup_items_inclusive(out_name, n) == [k \in 1..(n + 1) |-> StItem(out_name, k - 1)]

setup_items(out_name, n) == [k \in 1..n |-> StItem(out_name, k - 1)]

RECURSIVE link_initial_from(_, _, _, _)
link_initial_from(c, self, in_name, k) ==
    IF k > Len(self) THEN c
    ELSE link_initial_from(add_custom_link(c, self[k], in_name, (k - 1) + 1),
                           self, in_name, k + 1)

link_initial_unshifted(c, self, in_name) ==
    IF self = <<>> THEN c
    ELSE link_initial_from(add_custom_link(c, self[1], in_name, 0),
                           self, in_name, 2)

link_initial(c, self, in_name) == link_initial_from(c, self, in_name, 1)

create_inner(in_name, n) == [k \in 1..n |-> new_output(OutExpr(in_name, (k - 1) + 1))]

RECURSIVE link_result_from(_, _, _, _)
link_result_from(c, self, out_name, k) ==
    IF k > Len(self) THEN c
    ELSE link_result_from(add_custom_link(c, self[k], out_name, k - 1),
                          self, out_name, k + 1)

link_result(c, self, out_name) == link_result_from(c, self, out_name, 1)

create_output(out_name, n) == [k \in 1..n |-> new_output(OutExpr(out_name, k - 1))]

(* zone.rs:90-103: both sentinels, the iteration count, the pairing text   *)
(* and the links of the initial tuple, all in the caller's scope.          *)
repeat_zone_setup_input_first(c, out_name, in_name, iterations, initial_items) ==
    LET c1 == add_node(c, NodeData_new(in_name, "GeometryNodeRepeatInput"))
        c2 == add_node(c1, NodeData_new(out_name, "GeometryNodeRepeatOutput"))
        c3 == update_input(c2, in_name, 0, iterations.python_expr, iterations.is_literal)
        post_code == <<StPair(in_name, out_name), StClear(out_name)>>
                     \o setup_items(out_name, Len(initial_items))
        c4 == update_post_creation(c3, in_name, post_code)
    IN  link_initial(c4, initial_items, in_name)

repeat_zone_setup(c, out_name, in_name, iterations, initial_items) ==
    LET c1 == add_node(c, NodeData_new(out_name, "GeometryNodeRepeatOutput"))
        c2 == add_node(c1, NodeData_new(in_name, "GeometryNodeRepeatInput"))
        c3 == update_input(c2, in_name, 0, iterations.python_expr, iterations.is_literal)
        post_code == <<StPair(in_name, out_name), StClear(out_name)>>
                     \o setup_items(out_name, Len(initial_items))
        c4 == update_post_creation(c3, in_name, post_code)
    IN  link_initial(c4, initial_items, in_name)

repeat_zone_enter_scoped(c, out_name, in_name, iterations, initial_items) ==
    repeat_zone_setup(enter_scope(c), out_name, in_name, iterations, initial_items)

repeat_zone_enter(c, out_name, in_name, iterations, initial_items) ==
    repeat_zone_setup(c, out_name, in_name, iterations, initial_items)

(* zone.rs:108-110.                                                        *)
repeat_zone_leave(c, out_name, res_items) == link_result(c, res_items, out_name)

---------------------------------------------------------------------------
(* The project (project.rs).  A name or a script is a text: a sequence of  *)
(* symbols, each one character or a chunk of text in which no item name    *)
(* occurs.                                                                 *)
ScriptPrefix == <<"_", "s", "c", "r", "i", "p", "t", "_">>

Digits == <<"0", "1", "2", "3", "4", "5", "6", "7", "8", "9">>

RECURSIVE to_string(_)
to_string(n) ==
    IF n < 10 THEN <<Digits[n + 1]>>
    ELSE to_string(n \div 10) \o <<Digits[(n % 10) + 1]>>

starts_with(s, p) == Len(s) >= Len(p) /\ SubSeq(s, 1, Len(p)) = p

contains(hay, needle) ==
    \E k \in 0..(Len(hay) - Len(needle)) : SubSeq(hay, k + 1, k + Len(needle)) = needle

ProjectItem(name, script, dependencies) ==
    [name |-> name, script |-> script, dependencies |-> dependencies]

generate_script_header == <<"import bpy\n">>

Err(kind, name) == [kind |-> kind, name |-> name]

NoErr == Err("none", <<>>)

ResolveOk(order) == [ok |-> TRUE, err |-> NoErr, order |-> order]

ResolveErr(e) == [ok |-> FALSE, err |-> e, order |-> <<>>]

NoResult == [ok |-> FALSE, err |-> Err("not_run", <<>>), order |-> <<>>]

(* project.rs:116-123: the declared dependencies, then every registered    *)
(* name that is another item's, is not an auto-generated one and occurs in *)
(* the script, in registration order.                                      *)
InferredDeps_none(item, all_names) == <<>>

InferredDeps_any(item, all_names) ==
    SelectSeq(all_names,
              LAMBDA name : name # item.name /\ contains(item.script, name))

InferredDeps(item, all_names) ==
    SelectSeq(all_names,
              LAMBDA name : /\ name # item.name
                            /\ ~starts_with(name, ScriptPrefix)
                            /\ contains(item.script, name))

ItemDeps(item, all_names) == item.dependencies \o InferredDeps(item, all_names)

AllNames(its) == [i \in DOMAIN its |-> its[i].name]

(* project.rs:125-127: the first item whose name an earlier item has.      *)
FirstDuplicate_unchecked(its) == 0

FirstDuplicate(its) ==
    LET dups == {i \in DOMAIN its : \E j \in 1..(i - 1) : its[j].name = its[i].name}
    IN  IF dups = {} THEN 0 ELSE CHOOSE i \in dups : \A j \in dups : i <= j

(* graph and item_map once the first loop has ended without a duplicate.   *)
Graph(its) ==
    [n \in Range(AllNames(its)) |->
        ItemDeps(its[CHOOSE i \in DOMAIN its : its[i].name = n], AllNames(its))]

ItemMap(its) ==
    [n \in Range(AllNames(its)) |-> its[CHOOSE i \in DOMAIN its : its[i].name = n]]

DfsState(visited, visiting, sorted_names, err) ==
    [visited |-> visited, visiting |-> visiting, sorted_names |-> sorted_names, err |-> err]

(* project.rs:135-165.                                                     *)
RECURSIVE visit(_, _, _)
RECURSIVE visit_deps(_, _, _)
RECURSIVE visit_deps_lenient(_, _, _)
RECURSIVE visit_unmarked(_, _, _)
visit_unmarked(name, graph, st) ==
    IF name \in st.visiting THEN [st EXCEPT !.err = Err("cycle", name)]
    ELSE LET s1 == [st EXCEPT !.visiting = @ \cup {name}]
             s2 == visit_deps(graph[name], graph, s1)
         IN  IF s2.err # NoErr THEN s2
             ELSE DfsState(s2.visited \cup {name}, s2.visiting \ {name},
                           Append(s2.sorted_names, name), NoErr)

visit(name, graph, st) ==
    IF name \in st.visited THEN st
    ELSE IF name \in st.visiting THEN [st EXCEPT !.err = Err("cycle", name)]
    ELSE LET s1 == [st EXCEPT !.visiting = @ \cup {name}]
             s2 == visit_deps(graph[name], graph, s1)
         IN  IF s2.err # NoErr THEN s2
             ELSE DfsState(s2.visited \cup {name}, s2.visiting \ {name},
                           Append(s2.sorted_names, name), NoErr)

visit_deps_lenient(deps, graph, st) ==
    IF deps = <<>> THEN st
    ELSE IF Head(deps) \notin DOMAIN graph
         THEN visit_deps_lenient(Tail(deps), graph, st)
         ELSE LET s == visit(Head(deps), graph, st)
              IN  IF s.err # NoErr THEN s ELSE visit_deps_lenient(Tail(deps), graph, s)

visit_deps(deps, graph, st) ==
    IF deps = <<>> THEN st
    ELSE IF Head(deps) \notin DOMAIN graph
         THEN [st EXCEPT !.err = Err("unknown", Head(deps))]
         ELSE LET s == visit(Head(deps), graph, st)
              IN  IF s.err # NoErr THEN s ELSE visit_deps(Tail(deps), graph, s)

(* project.rs:167-175.                                                     *)
RECURSIVE visit_all_backwards(_, _, _)
visit_all_backwards(names, graph, st) ==
    IF names = <<>> THEN st
    ELSE LET s == visit(Last(names), graph, st)
         IN  IF s.err # NoErr THEN s ELSE visit_all_backwards(Front(names), graph, s)

RECURSIVE visit_all(_, _, _)
visit_all(names, graph, st) ==
    IF names = <<>> THEN st
    ELSE LET s == visit(Head(names), graph, st)
         IN  IF s.err # NoErr THEN s ELSE visit_all(Tail(names), graph, s)

resolve_dependencies(its) ==
    IF FirstDuplicate(its) # 0
    THEN ResolveErr(Err("duplicate", its[FirstDuplicate(its)].name))
    ELSE LET st == visit_all(AllNames(its), Graph(its), DfsState({}, {}, <<>>, NoErr))
         IN  IF st.err # NoErr THEN ResolveErr(st.err)
             ELSE ResolveOk([k \in DOMAIN st.sorted_names |->
                                ItemMap(its)[st.sorted_names[k]]])

Scripts(order) == [k \in DOMAIN order |-> order[k].script]

(* BlenderProject::send: what resolution returned, and what is handed to   *)
(* send_to_blender.                                                        *)
send_fragments_last(header, its) ==
    LET r == resolve_dependencies(its)
        named == SelectSeq(r.order, LAMBDA it : ~starts_with(it.name, ScriptPrefix))
        rest == SelectSeq(its, LAMBDA it : starts_with(it.name, ScriptPrefix))
    IN  [res |-> r,
         out |-> IF r.ok THEN <<header \o Flatten(Scripts(named \o rest))>> ELSE <<>>]

send_partial(header, its) ==
    LET r == resolve_dependencies(its)
    IN  [res |-> r, out |-> <<header \o Flatten(Scripts(r.order))>>]

send(header, its) ==
    LET r == resolve_dependencies(its)
    IN  [res |-> r,
         out |-> IF r.ok THEN <<header \o Flatten(Scripts(r.order))>> ELSE <<>>]

---------------------------------------------------------------------------
(* The capture context driven through its own interface, as the unit tests *)
(* of context.rs drive it.  A node's identity is the one its generated     *)
(* constructor draws (build.rs:412-417: a fresh uuid), so every add_node   *)
(* receives an identity never used before.                                 *)
NodeIds == 1..MaxNodes

IdNames == {"ShaderNodeMath"}

PropKeys == {"operation"}

PropVals == {"'ADD'"}

Slots == {0, 1}

Handles == {new_literal(LitExpr(1)), new_output(SrcExpr(1))}

UpdateOps == {"update_property", "update_input", "update_output_default",
              "update_post_creation", "append_custom_link"}

Frame(kind, depth0, tree, zin, zout, arity, made) ==
    [kind |-> kind, depth0 |-> depth0, tree |-> tree,
     zin |-> zin, zout |-> zout, arity |-> arity, made |-> made]

NoTree == NodeTree_new("", "none")

Threads == {1, 2}

NoFrame == Frame("none", 0, NoTree, 0, 0, 0, <<>>)

ZoneInfo(step, zin, zout, given, got) ==
    [step |-> step, zin |-> zin, zout |-> zout, given |-> given, got |-> got]

NoZone == ZoneInfo("none", 0, 0, <<>>, <<>>)

InitCapture ==
    /\ nodes = BuildContext_new.nodes
    /\ stack = BuildContext_new.stack
    /\ nextId = 0
    /\ op = "new"
    /\ ret = <<>>
    /\ log = << <<>> >>
    /\ closed = <<>>
    /\ arg = 0
    /\ was = 0
    /\ nUpd = 0
    /\ frames = <<>>
    /\ unwinding = FALSE
    /\ code = <<>>
    /\ owned = {}
    /\ popped = NoFrame
    /\ unwound = 0
    /\ zinfo = NoZone
    /\ zlog = << <<>> >>
    /\ zclosed = <<>>
    /\ declTree = NoTree
    /\ threads = [t \in Threads |-> [pc |-> "idle", made |-> {}, got |-> {}]]

Init ==
    /\ InitCapture
    /\ items = <<>>
    /\ res = NoResult
    /\ sent = <<>>

Apply(c, o, r, a) ==
    /\ nodes' = c.nodes
    /\ stack' = c.stack
    /\ op' = o
    /\ ret' = r
    /\ arg' = a
    /\ was' = Len(stack)
    /\ UNCHANGED <<buildVars, projVars, declVars>>

AddNode ==
    /\ nextId < MaxNodes
    /\ \E id \in IdNames :
          Apply(add_node(Ctx(nodes, stack), NodeData_new(nextId + 1, id)),
                "add_node", <<>>, 0)
    /\ nextId' = nextId + 1
    /\ log' = [log EXCEPT ![Len(log)] = Append(@, nextId + 1)]
    /\ UNCHANGED <<closed, nUpd>>

Update(c, o, a) ==
    /\ nUpd < MaxUpdates
    /\ Apply(c, o, <<>>, a)
    /\ nUpd' = nUpd + 1
    /\ UNCHANGED <<nextId, log, closed>>

UpdateProperty ==
    \E n \in NodeIds, k \in PropKeys, v \in PropVals :
        Update(update_property(Ctx(nodes, stack), n, k, v), "update_property", n)

UpdateInput ==
    \E n \in NodeIds, i \in Slots, h \in Handles :
        Update(update_input(Ctx(nodes, stack), n, i, h.python_expr, h.is_literal),
               "update_input", n)

UpdateOutputDefault ==
    \E n \in NodeIds :
        Update(update_output_default(Ctx(nodes, stack), n, 0, LitExpr(1)),
               "update_output_default", n)

UpdatePostCreation ==
    \E n \in NodeIds :
        Update(update_post_creation(Ctx(nodes, stack), n, <<StText(n)>>),
               "update_post_creation", n)

AppendCustomLink ==
    \E n \in NodeIds :
        Update(append_custom_link(Ctx(nodes, stack), n, <<StLink(SrcExpr(1), n, 1)>>),
               "append_custom_link", n)

EnterScope ==
    /\ Len(stack) < MaxDepth
    /\ Apply(enter_scope(Ctx(nodes, stack)), "enter_scope", <<>>, 0)
    /\ log' = Append(log, <<>>)
    /\ UNCHANGED <<nextId, closed, nUpd>>

ExitScope ==
    /\ LET r == exit_scope(Ctx(nodes, stack))
       IN  Apply(r.ctx, "exit_scope", r.ret, 0)
    /\ IF Len(log) > 1
       THEN log' = Front(log) /\ closed' = Last(log)
       ELSE log' = log /\ closed' = <<>>
    /\ UNCHANGED <<nextId, nUpd>>

TakeRoot ==
    /\ stack # <<>>
    /\ LET r == take_root(Ctx(nodes, stack))
       IN  Apply(r.ctx, "take_root", r.ret, 0)
    /\ log' = [log EXCEPT ![1] = <<>>]
    /\ closed' = log[1]
    /\ UNCHANGED <<nextId, nUpd>>

Next ==
    \/ AddNode
    \/ UpdateProperty
    \/ UpdateInput
    \/ UpdateOutputDefault
    \/ UpdatePostCreation
    \/ AppendCustomLink
    \/ EnterScope
    \/ ExitScope
    \/ TakeRoot

Spec == Init /\ [][Next]_vars

---------------------------------------------------------------------------
(* The host program: NodeTree::build calls, possibly nested, whose         *)
(* closures create nodes through the generated constructors and builder    *)
(* methods (build.rs:236-274, 412-431), call repeat_zone, and may panic.   *)
Trees == {NodeTree_new("Tree", "Geometry")}

(* The initial tuple handed to repeat_zone: the odd positions hold host    *)
(* expressions, the even ones literals, each recognisable by its position. *)
InitialTuple(n) ==
    [k \in 1..n |->
        IF k % 2 = 0 THEN new_literal(LitExpr(k)) ELSE new_output(SrcExpr(k))]

ResultPatterns == {"pass", "mixed"}

(* The tuple a body returns: the handles it was given, or literals at the  *)
(* odd positions.                                                          *)
ResultTuple(inner, p) ==
    [k \in DOMAIN inner |->
        IF p = "mixed" /\ k % 2 = 1 THEN new_literal(LitExpr(k)) ELSE inner[k]]

HostRunning == frames # <<>> /\ ~unwinding

RECURSIVE TopBuild(_)
TopBuild(fs) ==
    IF fs = <<>> THEN 0
    ELSE IF Last(fs).kind = "build" THEN Len(fs) ELSE TopBuild(Front(fs))

(* Every repeat_zone running in the current scope sees the nodes ids as    *)
(* created by its body.                                                    *)
Credit(fs, ids) ==
    [k \in DOMAIN fs |->
        IF fs[k].kind = "repeat" /\ k > TopBuild(fs)
        THEN [fs[k] EXCEPT !.made = @ \o ids]
        ELSE fs[k]]

Step(c, o, r) ==
    /\ nodes' = c.nodes
    /\ stack' = c.stack
    /\ op' = o
    /\ ret' = r
    /\ arg' = 0
    /\ was' = Len(stack)
    /\ UNCHANGED <<projVars, declVars>>

NewNode ==
    /\ HostRunning
    /\ nextId < MaxNodes
    /\ LET id == nextId + 1
       IN  /\ Step(add_node(Ctx(nodes, stack), NodeData_new(id, "ShaderNodeMath")),
                   "new_node", <<>>)
           /\ nextId' = id
           /\ owned' = owned \cup {id}
           /\ frames' = Credit(frames, <<id>>)
           /\ log' = [log EXCEPT ![Len(log)] = Append(@, id)]
    /\ code' = <<>> /\ closed' = <<>> /\ popped' = NoFrame
    /\ zinfo' = NoZone /\ zclosed' = <<>>
    /\ UNCHANGED <<nUpd, unwinding, unwound, zlog>>

BuilderCall(c, o, r) ==
    /\ HostRunning
    /\ nUpd < MaxCalls
    /\ Step(c, o, r)
    /\ nUpd' = nUpd + 1
    /\ code' = <<>> /\ closed' = <<>> /\ popped' = NoFrame
    /\ zinfo' = NoZone /\ zclosed' = <<>>
    /\ UNCHANGED <<nextId, log, frames, unwinding, owned, unwound, zlog>>

WithOperation ==
    \E n \in owned, v \in PropVals :
        BuilderCall(update_property(Ctx(nodes, stack), n, "operation", v),
                    "with_operation", <<n, v>>)

SetInput ==
    \E n \in owned, i \in Slots, h \in Handles :
        BuilderCall(update_input(Ctx(nodes, stack), n, i, h.python_expr, h.is_literal),
                    "set_input", <<n, i, h>>)

DefaultOutput ==
    \E n \in owned, h \in Handles :
        BuilderCall(update_output_default(Ctx(nodes, stack), n, 0, h.python_expr),
                    "default_output", <<n, h>>)

RepeatBeginWith(arities, counts) ==
    /\ HostRunning
    /\ nextId + 2 <= MaxNodes
    /\ \E n \in arities, it \in counts :
          LET out_name == nextId + 1
              in_name == nextId + 2
              initial_items == InitialTuple(n)
          IN  /\ Step(repeat_zone_enter(Ctx(nodes, stack), out_name, in_name,
                                        it, initial_items),
                      "repeat_zone_enter", <<it>>)
              /\ nextId' = nextId + 2
              /\ frames' = Append(Credit(frames, <<out_name, in_name>>),
                                  Frame("repeat", Len(stack), NoTree,
                                        in_name, out_name, n, <<>>))
              /\ zinfo' = ZoneInfo("enter", in_name, out_name, initial_items,
                                   create_inner(in_name, n))
              /\ log' = [log EXCEPT ![Len(log)] = @ \o <<out_name, in_name>>]
    /\ code' = <<>> /\ closed' = <<>> /\ popped' = NoFrame /\ zclosed' = <<>>
    /\ UNCHANGED <<nUpd, unwinding, owned, unwound, zlog>>

(* In the host program at large the zones carry no value or a pair, and   *)
(* a literal iteration count.                                              *)
RepeatBegin == RepeatBeginWith({0, 2}, {new_literal(LitExpr(5))})

RepeatEnd ==
    /\ HostRunning
    /\ Last(frames).kind = "repeat"
    /\ \E p \in ResultPatterns :
          LET f == Last(frames)
              res_items == ResultTuple(create_inner(f.zin, f.arity), p)
          IN  /\ Step(repeat_zone_leave(Ctx(nodes, stack), f.zout, res_items),
                      "repeat_zone_leave", <<>>)
              /\ frames' = Front(frames)
              /\ popped' = f
              /\ zinfo' = ZoneInfo("leave", f.zin, f.zout, res_items,
                                   create_output(f.zout, f.arity))
              /\ zlog' = [zlog EXCEPT ![Len(zlog)] =
                             Append(@, [zout |-> f.zout, zin |-> f.zin, made |-> f.made])]
    /\ code' = <<>> /\ closed' = <<>> /\ zclosed' = <<>>
    /\ UNCHANGED <<nextId, log, nUpd, unwinding, owned, unwound>>

BuildBegin ==
    /\ ~unwinding
    /\ Len(stack) < MaxDepth
    /\ \E tree \in Trees :
          frames' = Append(frames, Frame("build", Len(stack), tree, 0, 0, 0, <<>>))
    /\ Step(enter_scope(Ctx(nodes, stack)), "build_enter", <<>>)
    /\ log' = Append(log, <<>>)
    /\ zlog' = Append(zlog, <<>>)
    /\ code' = <<>> /\ closed' = <<>> /\ popped' = NoFrame
    /\ zinfo' = NoZone /\ zclosed' = <<>>
    /\ UNCHANGED <<nextId, nUpd, unwinding, owned, unwound>>

BuildFinish ==
    /\ HostRunning
    /\ Last(frames).kind = "build"
    /\ LET f == Last(frames)
           r == exit_scope(Ctx(nodes, stack))
       IN  /\ Step(guard_drop(r.ctx, FALSE), "build", r.ret)
           /\ \E ords \in OrderChoices(r.ret) : code' = build_script(f.tree, r.ret, ords)
           /\ popped' = f
    /\ frames' = Front(frames)
    /\ closed' = Last(log)
    /\ log' = Front(log)
    /\ zclosed' = Last(zlog)
    /\ zlog' = Front(zlog)
    /\ zinfo' = NoZone
    /\ UNCHANGED <<nextId, nUpd, unwinding, owned, unwound>>

Panic ==
    /\ HostRunning
    /\ unwinding' = TRUE
    /\ unwound' = 0
    /\ Step(Ctx(nodes, stack), "panic", <<>>)
    /\ code' = <<>> /\ closed' = <<>> /\ popped' = NoFrame
    /\ zinfo' = NoZone /\ zclosed' = <<>>
    /\ UNCHANGED <<nextId, log, nUpd, frames, owned, zlog>>

(* The panic leaves the innermost call: a build's guard is dropped armed,  *)
(* a repeat_zone has nothing to drop.  Nothing in the repository catches a *)
(* panic, so it propagates until no call is left (the test harness, or the *)
(* end of the thread).                                                     *)
Unwind ==
    /\ unwinding
    /\ frames # <<>>
    /\ LET f == Last(frames)
       IN  /\ popped' = f
           /\ IF f.kind = "build"
              THEN /\ Step(guard_drop(Ctx(nodes, stack), TRUE), "unwind", <<>>)
                   /\ unwound' = unwound + 1
                   /\ closed' = Last(log)
                   /\ log' = Front(log)
                   /\ zlog' = Front(zlog)
              ELSE /\ Step(Ctx(nodes, stack), "unwind", <<>>)
                   /\ closed' = <<>>
                   /\ UNCHANGED <<unwound, log, zlog>>
    /\ frames' = Front(frames)
    /\ unwinding' = (Len(frames) > 1)
    /\ code' = <<>> /\ zinfo' = NoZone /\ zclosed' = <<>>
    /\ UNCHANGED <<nextId, nUpd, owned>>

NextBuild ==
    \/ BuildBegin
    \/ NewNode
    \/ RepeatBegin
    \/ RepeatEnd
    \/ BuildFinish
    \/ Panic
    \/ Unwind

SpecBuild == Init /\ [][NextBuild]_vars

(* repeat_zone at every arity it is implemented for, in builds that do not *)
(* panic.                                                                  *)
RepeatBeginAny == RepeatBeginWith(0..MaxArity, Handles)

NextZone ==
    \/ BuildBegin
    \/ NewNode
    \/ RepeatBeginAny
    \/ RepeatEnd
    \/ BuildFinish

SpecZone == Init /\ [][NextZone]_vars

(* Builds whose closures apply arithmetic operators to handles: literals,  *)
(* host references and the result of the application before.               *)
MathOperations == {"ADD", "SUBTRACT", "MULTIPLY", "DIVIDE"}

Operands ==
    Handles \cup (IF nextId > 0 THEN {new_output(OutExpr(nextId, 0))} ELSE {})

MathOp ==
    /\ HostRunning
    /\ nextId < MaxNodes
    /\ nUpd < MaxCalls
    /\ \E op_enum \in MathOperations, lhs \in Operands, rhs \in Operands :
          LET name == nextId + 1
              r == impl_node_op(Ctx(nodes, stack), name, op_enum, lhs, rhs)
          IN  /\ Step(r.ctx, "math_op", <<op_enum, lhs, rhs, r.out>>)
              /\ nextId' = name
              /\ owned' = owned \cup {name}
              /\ frames' = Credit(frames, <<name>>)
              /\ log' = [log EXCEPT ![Len(log)] = Append(@, name)]
    /\ nUpd' = nUpd + 1
    /\ code' = <<>> /\ closed' = <<>> /\ popped' = NoFrame
    /\ zinfo' = NoZone /\ zclosed' = <<>>
    /\ UNCHANGED <<unwinding, unwound, zlog>>

(* Builds whose closures create nodes and call their builder methods, and  *)
(* neither panic, open a zone nor start another build.                     *)
BuildAlone ==
    /\ frames = <<>>
    /\ BuildBegin

NextNodes ==
    \/ BuildAlone
    \/ NewNode
    \/ WithOperation
    \/ SetInput
    \/ DefaultOutput
    \/ BuildFinish

SpecNodes == Init /\ [][NextNodes]_vars

NextOps == BuildAlone \/ MathOp \/ BuildFinish

SpecOps == Init /\ [][NextOps]_vars

---------------------------------------------------------------------------
(* A project assembled through BlenderProject's builder methods and sent.  *)
Chunk == "pass\n"

Mention(name) == <<Chunk>> \o name \o <<Chunk>>

ProjectNames == {<<"A">>, <<"B">>}

ItemScripts ==
    {<<Chunk>>, Mention(<<"A">>), Mention(<<"B">>), Mention(ScriptPrefix \o to_string(0))}

ProjectStep(o) ==
    /\ op' = o
    /\ UNCHANGED <<nodes, stack, nextId, ret, log, closed, arg, was, nUpd, buildVars,
                   declVars>>

AddNamedScript ==
    /\ Len(items) < MaxItems
    /\ \E name \in ProjectNames, script \in ItemScripts :
          items' = Append(items, ProjectItem(name, script, <<>>))
    /\ res' = NoResult
    /\ ProjectStep("add_named_script")
    /\ UNCHANGED sent

AddScript ==
    /\ Len(items) < MaxItems
    /\ \E script \in ItemScripts :
          items' = Append(items, ProjectItem(ScriptPrefix \o to_string(Len(items)),
                                             script, <<>>))
    /\ res' = NoResult
    /\ ProjectStep("add_script")
    /\ UNCHANGED sent

Send ==
    /\ Len(sent) < MaxSends
    /\ LET r == send(generate_script_header, items)
       IN  /\ res' = r.res
           /\ sent' = sent \o r.out
    /\ ProjectStep("send")
    /\ UNCHANGED items

NextProject ==
    \/ AddNamedScript
    \/ AddScript
    \/ Send

SpecProject == Init /\ [][NextProject]_vars

(* resolve_dependencies on item lists of every shape it accepts, declared  *)
(* dependencies included.                                                  *)
ItemNames == ProjectNames \cup {<<"C">>}

DeclaredDeps == {<<>>, << <<"C">> >>, << <<"Z">> >>}

ItemChoices ==
    {ProjectItem(n, s, <<>>) : n \in ItemNames, s \in ItemScripts}
    \cup {ProjectItem(n, <<Chunk>>, d) : n \in ItemNames, d \in DeclaredDeps}
    \cup {ProjectItem(ScriptPrefix \o to_string(0), s, <<>>) : s \in ItemScripts}

InitResolve ==
    /\ InitCapture
    /\ items \in UNION {[1..n -> ItemChoices] : n \in 0..MaxItems}
    /\ res = NoResult
    /\ sent = <<>>

Resolve ==
    /\ op = "new"
    /\ res' = resolve_dependencies(items)
    /\ ProjectStep("resolve")
    /\ UNCHANGED <<items, sent>>

NextResolve == Resolve

SpecResolve == InitResolve /\ [][NextResolve]_vars

---------------------------------------------------------------------------
(* Socket declarations on a NodeTree value (tree.rs:36-139): the host      *)
(* makes a tree of one of the six kinds and chains declaration calls on    *)
(* it.  A panicking call drops the tree it was handed.                     *)
SocketNames == {"X", "Y"}

SocketTypes == {"NodeSocketFloat", "NodeSocketGeometry"}

DeclStep(o, r, a) ==
    /\ declTree # NoTree
    /\ Len(declTree.inputs) + Len(declTree.outputs) < MaxDecls
    /\ op' = o
    /\ ret' = <<IF r.ok THEN "accepted" ELSE "rejected", declTree.tree_type>>
    /\ arg' = a
    /\ declTree' = IF r.ok THEN r.tree ELSE NoTree
    /\ UNCHANGED <<nodes, stack, nextId, log, closed, was, nUpd, buildVars, projVars,
                   threads>>

NewTree ==
    /\ \E kind \in TreeKinds : declTree' = NodeTree_new("Tree", kind)
    /\ op' = "new_tree"
    /\ ret' = <<>>
    /\ arg' = 0
    /\ UNCHANGED <<nodes, stack, nextId, log, closed, was, nUpd, buildVars, projVars,
                   threads>>

WithInput ==
    \E name \in SocketNames, ty \in SocketTypes :
       DeclStep("with_input", with_input(declTree, name, ty), 0)

WithInputDefault ==
    \E name \in SocketNames, ty \in SocketTypes, h \in Handles :
       DeclStep("with_input_default", with_input_default(declTree, name, ty, h), h)

WithOutput ==
    \E name \in SocketNames, ty \in SocketTypes :
       DeclStep("with_output", with_output(declTree, name, ty), 0)

NextTree == NewTree \/ WithInput \/ WithInputDefault \/ WithOutput

SpecTree == Init /\ [][NextTree]_vars

---------------------------------------------------------------------------
(* Two threads each running NodeTree::build on GLOBAL_CONTEXT              *)
(* (context.rs:167-231, tree.rs:262-306).  Every context function takes    *)
(* the mutex for the length of one call, so each call is one step and the  *)
(* calls of the two threads interleave freely.                             *)
ThreadEnter(t) ==
    /\ threads[t].pc = "idle"
    /\ LET c == enter_scope(Ctx(nodes, stack))
       IN  nodes' = c.nodes /\ stack' = c.stack
    /\ threads' = [threads EXCEPT ![t].pc = "body"]
    /\ op' = "thread_enter" /\ ret' = <<>> /\ arg' = t /\ code' = <<>>
    /\ UNCHANGED <<nextId, log, closed, was, nUpd, frames, unwinding, owned, popped,
                   unwound, zinfo, zlog, zclosed, projVars, declTree>>

ThreadNewNode(t) ==
    /\ threads[t].pc = "body"
    /\ nextId < MaxNodes
    /\ LET c == add_node(Ctx(nodes, stack), NodeData_new(nextId + 1, "ShaderNodeMath"))
       IN  nodes' = c.nodes /\ stack' = c.stack
    /\ nextId' = nextId + 1
    /\ threads' = [threads EXCEPT ![t].made = @ \cup {nextId + 1}]
    /\ op' = "thread_new_node" /\ ret' = <<>> /\ arg' = t /\ code' = <<>>
    /\ UNCHANGED <<log, closed, was, nUpd, frames, unwinding, owned, popped,
                   unwound, zinfo, zlog, zclosed, projVars, declTree>>

ThreadExit(t) ==
    /\ threads[t].pc = "body"
    /\ LET r == exit_scope(Ctx(nodes, stack))
       IN  /\ nodes' = r.ctx.nodes /\ stack' = r.ctx.stack
           /\ ret' = r.ret
           /\ \E tree \in Trees, ords \in OrderChoices(r.ret) :
                 code' = build_script(tree, r.ret, ords)
           /\ threads' = [threads EXCEPT ![t].pc = "idle",
                                         ![t].got = @ \cup {r.ret[k].name : k \in DOMAIN r.ret}]
    /\ op' = "thread_exit" /\ arg' = t
    /\ UNCHANGED <<nextId, log, closed, was, nUpd, frames, unwinding, owned, popped,
                   unwound, zinfo, zlog, zclosed, projVars, declTree>>

NextThreads == \E t \in Threads : ThreadEnter(t) \/ ThreadNewNode(t) \/ ThreadExit(t)

SpecThreads == Init /\ [][NextThreads]_vars

---------------------------------------------------------------------------
(* Claims about the capture context.                                       *)
Names(scope) == [i \in DOMAIN scope |-> scope[i].name]

\* C1: the exit_scope that closes a scope, and take_root for the bottom-most
\* scope, return exactly the nodes add_node received while that scope was the
\* top of the stack, in the order they were added, and none of them is left
\* in the registry afterwards.
C1_DrainReturnsCreationOrder ==
    op \in {"exit_scope", "take_root"} =>
        /\ Names(ret) = closed
        /\ \A i \in DOMAIN closed : closed[i] \notin DOMAIN nodes

\* Nodes 1 and 3 were added to one scope, node 2 to a scope nested in it and
\* closed in between; the outer exit_scope has just returned <<1, 3>>.
C1_Witness ==
    /\ op = "exit_scope"
    /\ closed = <<1, 3>>
    /\ Len(ret) = 2

\* C9: an update_* or append_custom_link call naming a node that is not in
\* the registry (never added, or already drained) changes neither the
\* registry nor the scope stack.
C9_AbsentNameIsNoOp ==
    [][(op' \in UpdateOps /\ arg' \notin DOMAIN nodes)
          => (nodes' = nodes /\ stack' = stack)]_vars

\* A mutation call has just named a node that was drained earlier, while
\* another node is still registered.
C9_Witness ==
    /\ op \in UpdateOps
    /\ arg \notin DOMAIN nodes
    /\ arg <= nextId
    /\ DOMAIN nodes # {}

\* C10: with only the root scope on the stack exit_scope returns the empty
\* list and leaves stack and registry as they were, and a take_root made
\* later returns the root's nodes in creation order.
C10_RootExitIsNoOp ==
    /\ [][(op' = "exit_scope" /\ Len(stack) = 1)
            => (ret' = <<>> /\ stack' = stack /\ nodes' = nodes)]_vars
    /\ [](op = "take_root" => Names(ret) = closed)

\* exit_scope has just been called at depth 1 with two nodes in the root.
C10_Witness ==
    /\ op = "exit_scope"
    /\ was = 1
    /\ stack = << <<1, 2>> >>
    /\ {1, 2} \subseteq DOMAIN nodes

---------------------------------------------------------------------------
(* Claims about NodeTree::build and its panic guard.                       *)

\* C2: when the closure of NodeTree::build panics, then once the panic has
\* unwound out of that build the scope stack is as deep as it was before
\* the build was called; the same holds for every enclosing build the panic
\* goes on to leave.
C2_PanicLeavesNoScope ==
    (op = "unwind" /\ popped.kind = "build") => Len(stack) = popped.depth0

\* A panic raised in a build nested in another build's closure has unwound
\* out of both, and the outer one had been called at depth 1.
C2_Witness ==
    /\ op = "unwind"
    /\ popped.kind = "build"
    /\ unwound = 2
    /\ popped.depth0 = 1
    /\ Len(stack) = 1

---------------------------------------------------------------------------
(* The blocks of a rendered script.                                        *)
HeaderAt(phase) == {j \in DOMAIN code : code[j] = StHeader(phase)}

CreationBlock ==
    {j \in DOMAIN code :
        /\ \E a \in HeaderAt("creation") : a < j
        /\ \E b \in HeaderAt("post_creation") : j < b}

LinkingBlock == {j \in DOMAIN code : \E a \in HeaderAt("linking") : a < j}

AssignsTo(n, i) ==
    {j \in CreationBlock :
        code[j].t = "in_default" /\ code[j].node = n /\ code[j].idx = i}

ConnectsTo(n, i) ==
    {j \in LinkingBlock :
        code[j].t = "link" /\ code[j].node = n /\ code[j].idx = i}

\* C5: for every node of a built graph and every input slot set on it, a
\* literal value gives the slot's default-value assignment in the creation
\* block and no connection to the slot in the linking block; a reference
\* gives a connection to the slot in the linking block and no assignment
\* for it in the creation block.
C5_LiteralAssignedReferenceLinked ==
    op = "build" =>
        \A k \in DOMAIN ret : \A i \in DOMAIN ret[k].inputs :
            LET n == ret[k].name
                v == ret[k].inputs[i]
            IN  IF v.is_literal
                THEN /\ \E j \in AssignsTo(n, i) : code[j].expr = v.expr
                     /\ ConnectsTo(n, i) = {}
                ELSE /\ \E j \in ConnectsTo(n, i) : code[j].expr = v.expr
                     /\ AssignsTo(n, i) = {}

\* A build has returned a graph in which one node has a literal in slot 0
\* and a reference in slot 1.
C5_Witness ==
    /\ op = "build"
    /\ \E k \in DOMAIN ret :
          /\ DOMAIN ret[k].inputs = {0, 1}
          /\ ret[k].inputs[0].is_literal
          /\ ~ret[k].inputs[1].is_literal

---------------------------------------------------------------------------
(* Claims about the order of a rendered script.                            *)
FragmentKinds == {"text", "pair", "clear", "item"}

RECURSIVE Fragments(_)
Fragments(ns) ==
    IF ns = <<>> THEN <<>>
    ELSE Head(ns).post_creation_script \o Fragments(Tail(ns))

RECURSIVE Select(_, _)
Select(sq, kinds) ==
    IF sq = <<>> THEN <<>>
    ELSE (IF Head(sq).t \in kinds THEN <<Head(sq)>> ELSE <<>>) \o Select(Tail(sq), kinds)

\* C6: in the script NodeTree::build returns, the setup statement and the
\* three phase headers appear once each in the order setup, creation,
\* post-creation, linking; the post-creation block holds the nodes'
\* fragments in node-creation order; and every fragment statement of the
\* script comes after the instantiation statement of every node and before
\* every connection statement.
C6_FragmentsBetweenCreationAndLinking ==
    op = "build" =>
        /\ code[1].t = "setup"
        /\ \E a, b, c \in DOMAIN code :
              /\ 1 < a /\ a < b /\ b < c
              /\ HeaderAt("creation") = {a}
              /\ HeaderAt("post_creation") = {b}
              /\ HeaderAt("linking") = {c}
              /\ Select(SubSeq(code, b + 1, c - 1), FragmentKinds) = Fragments(ret)
        /\ \A j \in DOMAIN code :
              code[j].t \in FragmentKinds =>
                  /\ \A i \in DOMAIN code : code[i].t = "new" => i < j
                  /\ \A i \in DOMAIN code : code[i].t = "link" => j < i

---------------------------------------------------------------------------
(* Claims about repeat_zone.                                               *)
EntryKind(h) == IF h.is_literal THEN "in_default" ELSE "link"

\* C7: at every arity n, repeat_zone leaves exactly n custom-link entries on
\* the loop-input sentinel, entry i (from 0) carrying initial element i to
\* input slot i+1, hands the body a handle to output slot i+1 of that
\* sentinel for position i, leaves exactly n custom-link entries on the
\* loop-output sentinel, entry i carrying result element i to input slot i,
\* and returns for position i a handle to output slot i of the loop-output
\* sentinel.
C7_SlotShiftPerPosition ==
    /\ op = "repeat_zone_enter" =>
          LET n == Len(zinfo.given)
              links == nodes[zinfo.zin].custom_links_script
          IN  /\ Len(links) = n
              /\ Len(zinfo.got) = n
              /\ nodes[zinfo.zout].custom_links_script = <<>>
              /\ \A k \in 1..n :
                    /\ links[k].t = EntryKind(zinfo.given[k])
                    /\ links[k].expr = zinfo.given[k].python_expr
                    /\ links[k].node = zinfo.zin
                    /\ links[k].idx = (k - 1) + 1
                    /\ zinfo.got[k] = new_output(OutExpr(zinfo.zin, (k - 1) + 1))
    /\ op = "repeat_zone_leave" =>
          LET n == Len(zinfo.given)
              links == nodes[zinfo.zout].custom_links_script
          IN  /\ Len(links) = n
              /\ Len(zinfo.got) = n
              /\ Len(nodes[zinfo.zin].custom_links_script) = n
              /\ \A k \in 1..n :
                    /\ links[k].t = EntryKind(zinfo.given[k])
                    /\ links[k].expr = zinfo.given[k].python_expr
                    /\ links[k].node = zinfo.zout
                    /\ links[k].idx = k - 1
                    /\ zinfo.got[k] = new_output(OutExpr(zinfo.zout, k - 1))

\* A repeat_zone of arity 6 has returned, its body having replaced some of
\* the values it was given by literals.
C7_Witness ==
    /\ op = "repeat_zone_leave"
    /\ Len(zinfo.given) = 6
    /\ \E k \in 1..6 : zinfo.given[k].is_literal
    /\ \E k \in 1..6 : ~zinfo.given[k].is_literal
    /\ Len(nodes[zinfo.zin].custom_links_script) = 6

IsRun(sub, sq) ==
    \E s \in 0..(Len(sq) - Len(sub)) : SubSeq(sq, s + 1, s + Len(sub)) = sub

\* C8: repeat_zone opens no scope: while its body runs and when it has
\* returned the scope stack is as deep as at the call, and the exit_scope of
\* the caller's build returns the loop-output sentinel, the loop-input
\* sentinel and then the nodes the body created, in creation order, as one
\* run of its list.
C8_ZoneSharesCallerScope ==
    /\ (frames # <<>> /\ Last(frames).kind = "repeat" /\ ~unwinding)
          => Len(stack) = Last(frames).depth0
    /\ op = "repeat_zone_leave" => Len(stack) = popped.depth0
    /\ op = "build" =>
          \A k \in DOMAIN zclosed :
              IsRun(<<zclosed[k].zout, zclosed[k].zin>> \o zclosed[k].made, Names(ret))

\* A build whose closure called repeat_zone with a body that created a node
\* has returned the two sentinels and the body's node.
C8_Witness ==
    /\ op = "build"
    /\ Len(ret) = 3
    /\ \E k \in DOMAIN zclosed : Len(zclosed[k].made) = 1

---------------------------------------------------------------------------
(* Claims about the project resolver.                                      *)

(* Item a depends on item b: b's name is declared by a, or b is another    *)
(* named item (its name is not an auto-generated one) whose name occurs in *)
(* a's script.                                                             *)
DependsOn(a, b) ==
    \/ b.name \in Range(a.dependencies)
    \/ /\ b.name # a.name
       /\ ~starts_with(b.name, ScriptPrefix)
       /\ contains(a.script, b.name)

\* C3: when resolve_dependencies succeeds, its result holds every item, and
\* every item stands after every item it depends on, by declaration or
\* because the other item is named and its name occurs in this item's
\* script.
C3_DependenciesComeFirst ==
    (op = "resolve" /\ res.ok) =>
        /\ Range(res.order) = Range(items)
        /\ \A i, j \in DOMAIN res.order :
              DependsOn(res.order[i], res.order[j]) => j < i

\* A, whose script mentions B, was registered first, then the unrelated C,
\* then B; resolution succeeded and put B before A.
C3_Witness ==
    /\ op = "resolve"
    /\ res.ok
    /\ items = <<ProjectItem(<<"A">>, Mention(<<"B">>), <<>>),
                 ProjectItem(<<"C">>, <<Chunk>>, <<>>),
                 ProjectItem(<<"B">>, <<Chunk>>, <<>>)>>
    /\ AllNames(res.order) = << <<"B">>, <<"A">>, <<"C">> >>

(* The dependency relation among the registered items holds a cycle.       *)
RECURSIVE ReachIn(_, _, _)
ReachIn(its, from, n) ==
    IF n = 0 THEN from
    ELSE ReachIn(its,
                 from \cup {j \in DOMAIN its : \E i \in from : DependsOn(its[i], its[j])},
                 n - 1)

HasCycle(its) ==
    \E i \in DOMAIN its :
        i \in ReachIn(its, {j \in DOMAIN its : DependsOn(its[i], its[j])}, Len(its))

UniqueNames(its) ==
    \A i, j \in DOMAIN its : its[i].name = its[j].name => i = j

\* C4 as stated: whenever the dependency relation among the project items
\* holds a cycle, send's resolution fails with the cycle error and nothing
\* is handed to the transport.
C4_CycleGivesCycleError ==
    [][(op' = "send" /\ HasCycle(items))
          => (~res'.ok /\ res'.err.kind = "cycle" /\ sent' = sent)]_vars

\* C4, amended: whenever the dependency relation among the project items
\* holds a cycle, send's resolution fails and nothing is handed to the
\* transport; the failure is the cycle error when the item names are
\* unique, and the duplicate-name error otherwise.
C4_CycleSendsNothing ==
    [][(op' = "send" /\ HasCycle(items))
          => /\ ~res'.ok
             /\ sent' = sent
             /\ res'.err.kind = IF UniqueNames(items) THEN "cycle" ELSE "duplicate"]_vars

\* A and B mention each other and an unnamed fragment is registered beside
\* them; send has failed with the cycle error and the transport was not
\* called.
C4_Witness ==
    /\ op = "send"
    /\ HasCycle(items)
    /\ UniqueNames(items)
    /\ Len(items) = 3
    /\ res.err.kind = "cycle"
    /\ sent = <<>>

---------------------------------------------------------------------------
(* Claims about the script send assembles.                                 *)

(* In a project assembled through add_named_script and add_script the      *)
(* unnamed fragments are the items add_script named.                       *)
IsFragment(item) == starts_with(item.name, ScriptPrefix)

NamedOf(sq) == SelectSeq(sq, LAMBDA it : ~IsFragment(it))

FragmentsOf(sq) == SelectSeq(sq, LAMBDA it : IsFragment(it))

PositionIn(sq, item) == CHOOSE k \in DOMAIN sq : sq[k] = item

(* Item i of its reaches item j through the dependency relation.           *)
Reaches(its, i, j) ==
    j \in ReachIn(its, {k \in DOMAIN its : DependsOn(its[i], its[k])}, Len(its))

\* C11 as stated: the script send hands over is the preamble, then the
\* scripts of the named items in resolved order, then the scripts of the
\* unnamed fragments in registration order.
C11_FragmentsAfterNamedItems ==
    (op = "send" /\ res.ok) =>
        Last(sent) = generate_script_header
                     \o Flatten(Scripts(NamedOf(res.order)))
                     \o Flatten(Scripts(FragmentsOf(items)))

\* C11, amended: the script send hands over is the preamble exactly once,
\* then the script of every item, named or unnamed, exactly once in the
\* resolved order; in that order an item registered later stands before
\* one registered earlier only if that earlier item, or one registered
\* before it, depends on it directly or through other items.  An unnamed
\* fragment is not moved behind the named items.
C11_AllItemsInResolvedOrder ==
    (op = "send" /\ res.ok) =>
        /\ Last(sent) = generate_script_header \o Flatten(Scripts(res.order))
        /\ Len(SelectSeq(Last(sent), LAMBDA x : x = generate_script_header[1])) = 1
        /\ Len(res.order) = Len(items)
        /\ Range(res.order) = Range(items)
        /\ \A i, j \in DOMAIN items :
              (i < j /\ PositionIn(res.order, items[j]) < PositionIn(res.order, items[i]))
                  => \E k \in 1..i : Reaches(items, k, j)

\* A fragment was registered first and two named items after it; send has
\* handed over the preamble, the fragment's script and then the named ones.
C11_Witness ==
    /\ op = "send"
    /\ res.ok
    /\ Len(items) = 3
    /\ IsFragment(items[1])
    /\ ~IsFragment(items[2])
    /\ ~IsFragment(items[3])
    /\ res.order = items
    /\ items[1].script # items[2].script
    /\ Len(sent) = 1

\* C12: an unnamed fragment takes no part in dependency inference: when
\* send resolves the project, the dependency list computed for a fragment
\* is empty whatever names occur in its text, and a fragment's generated
\* name is in no item's dependency list.
C12_FragmentsOutsideInference ==
    op = "send" =>
        \A i \in DOMAIN items :
            IsFragment(items[i]) =>
                /\ ItemDeps(items[i], AllNames(items)) = <<>>
                /\ \A j \in DOMAIN items :
                      items[i].name \notin Range(ItemDeps(items[j], AllNames(items)))

\* C12, amended: an unnamed fragment is never a dependency target, its
\* generated name being in no item's dependency list even when it occurs in
\* that item's script; but it is scanned as a dependent like every item:
\* its dependency list holds the name of every named item occurring in its
\* text, and when resolution succeeds it stands after each of those items.
C12_FragmentsAreDependentsOnly ==
    op = "send" =>
        \A i \in DOMAIN items :
            IsFragment(items[i]) =>
                /\ \A j \in DOMAIN items :
                      items[i].name \notin Range(ItemDeps(items[j], AllNames(items)))
                /\ \A j \in DOMAIN items :
                      (~IsFragment(items[j]) /\ contains(items[i].script, items[j].name))
                          => /\ items[j].name \in Range(ItemDeps(items[i], AllNames(items)))
                             /\ res.ok => PositionIn(res.order, items[j])
                                              < PositionIn(res.order, items[i])

\* A fragment whose text mentions A was registered first, then A, then B
\* whose script mentions the fragment's generated name; send has put A
\* before the fragment and left B last.
C12_Witness ==
    /\ op = "send"
    /\ res.ok
    /\ Len(items) = 3
    /\ items[1] = ProjectItem(ScriptPrefix \o to_string(0), Mention(<<"A">>), <<>>)
    /\ items[2].name = <<"A">>
    /\ items[3] = ProjectItem(<<"B">>, Mention(ScriptPrefix \o to_string(0)), <<>>)
    /\ res.order = <<items[2], items[1], items[3]>>

---------------------------------------------------------------------------
(* C13: with_input, with_input_default and with_output are accepted        *)
(* exactly on the three group kinds, with_input_default only with a        *)
(* literal default; an accepted call appends exactly its one declaration   *)
(* and a rejected call leaves no tree holding a declaration.               *)
Declarations(t) == Len(t.inputs) + Len(t.outputs)

DeclOps == {"with_input", "with_input_default", "with_output"}

OnGroupKind == declTree.tree_type \in {"GeometryGroup", "ShaderGroup", "CompositorGroup"}

C13_DeclarationsOnlyOnGroups ==
    [][op' \in DeclOps =>
          LET accepted == ret'[1] = "accepted"
          IN  /\ ret'[1] \in {"accepted", "rejected"}
              /\ accepted <=> /\ OnGroupKind
                              /\ op' = "with_input_default" => arg'.is_literal
              /\ accepted =>
                    /\ declTree'.tree_type = declTree.tree_type
                    /\ IF op' = "with_output"
                       THEN /\ declTree'.inputs = declTree.inputs
                            /\ Front(declTree'.outputs) = declTree.outputs
                            /\ Len(declTree'.outputs) = Len(declTree.outputs) + 1
                       ELSE /\ declTree'.outputs = declTree.outputs
                            /\ Front(declTree'.inputs) = declTree.inputs
                            /\ Len(declTree'.inputs) = Len(declTree.inputs) + 1
                            /\ Last(declTree'.inputs).has_default
                                  = (op' = "with_input_default")
              /\ ~accepted => Declarations(declTree') = 0]_vars

C13_Witness ==
    /\ op = "with_input_default"
    /\ ret = <<"rejected", "GeometryGroup">>
    /\ ~arg.is_literal
    /\ Declarations(declTree) = 0

---------------------------------------------------------------------------
(* Claims about the order of the linking phase.                            *)
SlotOrder(node) ==
    CHOOSE s \in Orderings(DOMAIN node.inputs) :
        \A i, j \in DOMAIN s : i < j => s[i] < s[j]

LinkingStatements == SubSeq(code, (CHOOSE c \in HeaderAt("linking") : TRUE) + 1, Len(code))

\* C14: the linking phase of a built script lists the nodes in creation
\* order and, within a node, the connections in ascending slot order, then
\* the node's custom-link fragment, whatever order the slots were set in.
C14_LinksInSlotOrder ==
    op = "build" =>
        LinkingStatements = LinkingPhase(ret, [k \in DOMAIN ret |-> [i |-> SlotOrder(ret[k])]])

ConnectionsIn(node, slot) ==
    SelectSeq(links_script(node, SlotOrder(node)),
              LAMBDA st : st.t = "link" /\ st.idx = slot)

\* C15: an input slot holds a list of entries: binding a reference to a
\* slot that already holds a reference adds a second connection statement
\* for that slot, after the first, and the earlier binding is kept.
C15_SecondReferenceAddsConnection ==
    [][(/\ op' = "set_input"
        /\ ~ret'[3].is_literal
        /\ ret'[2] \in DOMAIN nodes[ret'[1]].inputs
        /\ ~nodes[ret'[1]].inputs[ret'[2]].is_literal)
       => LET n == ret'[1]
              slot == ret'[2]
          IN  ConnectionsIn(nodes'[n], slot)
                 = Append(ConnectionsIn(nodes[n], slot),
                          StLink(ret'[3].python_expr, n, slot))]_vars

\* C16: in a built script no input-default or output-default assignment of
\* the creation phase carries the expression of a reference handle: a
\* reference expression occurs in the linking phase only.
C16_NoReferenceInCreationPhase ==
    op = "build" =>
        \A j \in CreationBlock :
            code[j].t \in {"in_default", "out_default"} => code[j].expr.kind = "lit"

---------------------------------------------------------------------------
(* Claims about the registry and the scope stack.                          *)
Listings(n) == {<<d, k>> \in (DOMAIN stack) \X (1..MaxNodes) :
                   k \in DOMAIN stack[d] /\ stack[d][k] = n}

\* C17: after any sequence of add_node, update_*, enter_scope, exit_scope
\* and take_root calls, each registry entry is the record of the identity
\* it is filed under, and every registered node is listed exactly once, in
\* exactly one open scope.
C17_RegisteredListedOnce ==
    \A n \in DOMAIN nodes :
        /\ nodes[n].name = n
        /\ Cardinality(Listings(n)) = 1

\* Node 1 is in the root scope, node 2 was drained with a scope closed
\* earlier, and node 3 is in a scope opened after that.
C17_Witness ==
    /\ stack = << <<1>>, <<3>> >>
    /\ DOMAIN nodes = {1, 3}
    /\ nextId = 3

\* C18 as stated: when the closure of a build panics, the guard restores
\* the depth of the scope stack and nothing else: the records the closure
\* had added stay in the registry, listed in no open scope.
C18_PanicLeavesRecordsOrphaned ==
    (op = "unwind" /\ popped.kind = "build") =>
        /\ Len(stack) = popped.depth0
        /\ \A n \in Range(closed) : n \in DOMAIN nodes /\ Listings(n) = {}

\* C18, amended: when the closure of a build panics, the guard closes the
\* build's scope as a normal exit does: the depth of the scope stack is
\* restored, the records the closure had added to that scope are removed
\* from the registry, and no registered node is left outside the open
\* scopes.
C18_PanicDiscardsScopeRecords ==
    (op = "unwind" /\ popped.kind = "build") =>
        /\ Len(stack) = popped.depth0
        /\ \A n \in Range(closed) : n \notin DOMAIN nodes /\ Listings(n) = {}
        /\ \A n \in DOMAIN nodes : Cardinality(Listings(n)) = 1

\* A panic has left a build nested in another build: node 2, created in
\* the inner closure, is gone; node 1 of the outer closure is still
\* registered and listed.
C18_Witness ==
    /\ op = "unwind"
    /\ popped.kind = "build"
    /\ closed = <<2>>
    /\ DOMAIN nodes = {1}
    /\ stack = << <<>>, <<1>> >>

---------------------------------------------------------------------------
(* Claims about the sentinels of repeat_zone.                              *)
NewAt(n) == {j \in DOMAIN code : code[j].t = "new" /\ code[j].node = n}

\* C19: repeat_zone adds the loop-output sentinel to the caller's scope
\* right before the loop-input sentinel and sets slot 0 of the input
\* sentinel to the iteration count it was given; in every built script a
\* pairing statement stands after the instantiation statements of the two
\* sentinels it names.
C19_PairingAfterBothSentinels ==
    /\ op = "repeat_zone_enter" =>
          LET scope == Last(stack)
          IN  /\ \E k \in DOMAIN scope :
                    /\ k + 1 \in DOMAIN scope
                    /\ scope[k] = zinfo.zout
                    /\ scope[k + 1] = zinfo.zin
              /\ nodes[zinfo.zout].bl_idname = "GeometryNodeRepeatOutput"
              /\ nodes[zinfo.zin].bl_idname = "GeometryNodeRepeatInput"
              /\ DOMAIN nodes[zinfo.zin].inputs = {0}
              /\ nodes[zinfo.zin].inputs[0].expr = ret[1].python_expr
              /\ nodes[zinfo.zin].inputs[0].is_literal = ret[1].is_literal
              /\ nodes[zinfo.zin].post_creation_script[1] = StPair(zinfo.zin, zinfo.zout)
    /\ op = "build" =>
          \A j \in DOMAIN code :
              code[j].t = "pair" =>
                  /\ \E i \in NewAt(code[j].node) : i < j
                  /\ \E i \in NewAt(code[j].with) : i < j

\* A build has rendered a zone opened after another node had been created:
\* its script pairs sentinel 3 with sentinel 2.
C19_Witness ==
    /\ op = "build"
    /\ \E j \in DOMAIN code : code[j] = StPair(3, 2)
    /\ NewAt(1) # {}

\* C20: with the empty tuple repeat_zone still adds both sentinels and
\* gives the input sentinel the pairing and clear statements as its
\* post-creation text, declares no loop item, and leaves the custom-link
\* lists of both sentinels empty, at the call and at the return.
C20_EmptyTupleStillPairs ==
    (op \in {"repeat_zone_enter", "repeat_zone_leave"} /\ zinfo.given = <<>>) =>
        /\ {zinfo.zin, zinfo.zout} \subseteq DOMAIN nodes
        /\ Cardinality(Listings(zinfo.zin)) = 1
        /\ Cardinality(Listings(zinfo.zout)) = 1
        /\ nodes[zinfo.zin].bl_idname = "GeometryNodeRepeatInput"
        /\ nodes[zinfo.zout].bl_idname = "GeometryNodeRepeatOutput"
        /\ nodes[zinfo.zin].post_creation_script
              = <<StPair(zinfo.zin, zinfo.zout), StClear(zinfo.zout)>>
        /\ nodes[zinfo.zout].post_creation_script = <<>>
        /\ nodes[zinfo.zin].custom_links_script = <<>>
        /\ nodes[zinfo.zout].custom_links_script = <<>>
        /\ zinfo.got = <<>>

\* A repeat_zone called with the empty tuple has returned, its body having
\* created a node.
C20_Witness ==
    /\ op = "repeat_zone_leave"
    /\ zinfo.given = <<>>
    /\ popped.arity = 0
    /\ Len(popped.made) = 1

---------------------------------------------------------------------------
(* Claims about the failures of the resolver.                              *)

\* C21: whenever two items of the project have the same name, send's
\* resolution fails with the duplicate-name error, naming a name that two
\* items have, and nothing is handed to the transport, whatever the
\* scripts of the items and the order they were registered in.
C21_DuplicateNameSendsNothing ==
    [][(op' = "send" /\ ~UniqueNames(items))
          => /\ ~res'.ok
             /\ res'.err.kind = "duplicate"
             /\ \E i, j \in DOMAIN items :
                   i # j /\ items[i].name = res'.err.name /\ items[j].name = res'.err.name
             /\ res'.order = <<>>
             /\ sent' = sent]_vars

\* Two items named A stand after an item named B whose script mentions A;
\* send has failed with the duplicate-name error for A and the transport
\* was not called.
C21_Witness ==
    /\ op = "send"
    /\ Len(items) = 3
    /\ items[1] = ProjectItem(<<"B">>, Mention(<<"A">>), <<>>)
    /\ items[2].name = <<"A">>
    /\ items[3].name = <<"A">>
    /\ res.err = Err("duplicate", <<"A">>)
    /\ sent = <<>>

UnknownDependency(its) ==
    \E i \in DOMAIN its :
        \E d \in Range(its[i].dependencies) : d \notin Range(AllNames(its))

\* C22: when an item declares a dependency on a name that no project item
\* has, resolve_dependencies fails and returns no item; it never succeeds
\* with the unknown name left out.
C22_UnknownDependencyFails ==
    (op = "resolve" /\ UnknownDependency(items)) =>
        /\ ~res.ok
        /\ res.order = <<>>
        /\ res.err.kind \in {"unknown", "duplicate", "cycle"}
        /\ (UniqueNames(items) /\ ~HasCycle(items)) =>
              /\ res.err.kind = "unknown"
              /\ res.err.name \notin Range(AllNames(items))

\* A declares the unknown name Z beside two unrelated items; resolution
\* has failed with the unknown-dependency error for Z.
C22_Witness ==
    /\ op = "resolve"
    /\ Len(items) = 3
    /\ UniqueNames(items)
    /\ items[2] = ProjectItem(<<"A">>, <<Chunk>>, << <<"Z">> >>)
    /\ res.err = Err("unknown", <<"Z">>)

---------------------------------------------------------------------------
(* Claims about the arithmetic operators.                                  *)
InputOf(h) == [expr |-> h.python_expr, is_literal |-> h.is_literal]

\* C24: every application of an arithmetic operator to two handles adds
\* exactly one math node, at the end of the top scope, with the operation
\* of the operator, the left operand in input slot 0 and the right operand
\* in input slot 1, and returns that node's output; the nodes and scopes
\* that were there are left as they were.
C24_OperatorAddsOneMathNode ==
    [][op' = "math_op" =>
          \E n \in DOMAIN nodes' \ DOMAIN nodes :
              /\ DOMAIN nodes' = DOMAIN nodes \cup {n}
              /\ \A m \in DOMAIN nodes : nodes'[m] = nodes[m]
              /\ stack' = [stack EXCEPT ![Len(stack)] = Append(@, n)]
              /\ nodes'[n].name = n
              /\ nodes'[n].bl_idname = "ShaderNodeMath"
              /\ DOMAIN nodes'[n].properties = {"operation"}
              /\ nodes'[n].properties["operation"] = ret'[1]
              /\ DOMAIN nodes'[n].inputs = {0, 1}
              /\ nodes'[n].inputs[0] = InputOf(ret'[2])
              /\ nodes'[n].inputs[1] = InputOf(ret'[3])
              /\ ret'[4] = new_output(OutExpr(n, 0))]_vars

\* The same operator has been applied twice to the same two operands, a
\* reference on the left and a literal on the right: the scope lists two
\* nodes, alike but for their names.
C24_Witness ==
    /\ op = "math_op"
    /\ Last(stack) = <<1, 2>>
    /\ ret[1] = "SUBTRACT"
    /\ ~ret[2].is_literal /\ ret[3].is_literal
    /\ nodes[1].inputs = nodes[2].inputs
    /\ nodes[1].properties = nodes[2].properties

---------------------------------------------------------------------------
(* Claims about builds running concurrently on the shared context.         *)
Holders(n) == {t \in Threads : n \in threads[t].got}

\* C23: with two builds running concurrently on the shared context no node
\* is lost or handed out twice: every node made so far is either in the
\* registry, listed once in an open scope, or was returned to exactly one
\* build.  Which build receives it depends on the scope on top of the
\* stack when it was made, not on the thread that made it.
C23_NodesConservedNotIsolated ==
    /\ \A n \in 1..nextId :
          IF n \in DOMAIN nodes
          THEN Cardinality(Listings(n)) = 1 /\ Holders(n) = {}
          ELSE Listings(n) = {} /\ Cardinality(Holders(n)) = 1
    /\ \A n \in 1..nextId : Cardinality({t \in Threads : n \in threads[t].made}) = 1
    /\ op = "thread_exit" => {ret[k].name : k \in DOMAIN ret} \subseteq threads[arg].got

\* The interleaving of the claim: the exit_scope of thread 1's build has
\* just returned a node that thread 2's closure made, thread 2's build is
\* still running, and the script of thread 1's graph instantiates the node.
C23_Witness ==
    /\ op = "thread_exit"
    /\ arg = 1
    /\ threads[2].pc = "body"
    /\ \E n \in threads[2].made :
          /\ n \in threads[1].got
          /\ n \in {ret[k].name : k \in DOMAIN ret}
          /\ NewAt(n) # {}

---------------------------------------------------------------------------
(* Claims about the depth of the scope stack.                              *)

\* C25: the scope stack is never empty; enter_scope makes it one deeper,
\* exit_scope one shallower unless its depth is 1, in which case it stays
\* at 1, and no other operation changes its depth.
C25_StackDepthAtLeastOne ==
    /\ [](Len(stack) >= 1)
    /\ [][op' = "enter_scope" => Len(stack') = Len(stack) + 1]_vars
    /\ [][op' = "exit_scope" =>
             Len(stack') = IF Len(stack) = 1 THEN 1 ELSE Len(stack) - 1]_vars
    /\ [][op' \in UpdateOps \cup {"add_node", "take_root"} => Len(stack') = Len(stack)]_vars

\* exit_scope has just closed the innermost of two nested scopes, both of
\* which had been given a node.
C25_Witness ==
    /\ op = "exit_scope"
    /\ was = 3
    /\ Len(stack) = 2
    /\ stack[2] # <<>>
    /\ closed # <<>>

\* C30: take_root drains the bottom-most scope only: with nested scopes
\* open it empties the root's list, removes the root's nodes from the
\* registry and leaves the depth of the stack, the lists of the nested
\* scopes and the records of their nodes as they were; the exit_scope that
\* later closes a nested scope returns that scope's nodes.
C30_TakeRootLeavesNestedScopes ==
    /\ [][(op' = "take_root" /\ Len(stack) > 1) =>
             /\ Len(stack') = Len(stack)
             /\ stack'[1] = <<>>
             /\ Names(ret') = stack[1]
             /\ \A d \in 2..Len(stack) :
                   /\ stack'[d] = stack[d]
                   /\ \A n \in Range(stack[d]) :
                         n \in DOMAIN nodes' /\ nodes'[n] = nodes[n]
             /\ \A n \in Range(stack[1]) : n \notin DOMAIN nodes']_vars
    /\ [][(op' = "exit_scope" /\ Len(stack) > 1) =>
             /\ Names(ret') = Last(stack)
             /\ ret' = [k \in DOMAIN Last(stack) |-> nodes[Last(stack)[k]]]]_vars

\* take_root has just returned node 1 of the root while a nested scope
\* holding node 2 is open.
C30_Witness ==
    /\ op = "take_root"
    /\ closed = <<1>>
    /\ stack = << <<>>, <<2>> >>
    /\ DOMAIN nodes = {2}

---------------------------------------------------------------------------
(* Claims about nested builds.                                             *)
Instantiated ==
    LET made == SelectSeq(code, LAMBDA st : st.t = "new")
    IN  [k \in DOMAIN made |-> made[k].node]

\* C26: a build that completes normally leaves the scope stack as deep as
\* it was when the build was called, and its script instantiates exactly
\* the nodes made in its own closure, in creation order: none of a build
\* nested in the closure, and all of its own made before and after one.
C26_NestedBuildIsolated ==
    op = "build" =>
        /\ Len(stack) = popped.depth0
        /\ Names(ret) = closed
        /\ Instantiated = closed
        /\ \A d \in DOMAIN log : \A n \in Range(log[d]) : n \notin Range(closed)

\* The outer of two nested builds has returned: it made node 1 before and
\* node 3 after the inner build, which made node 2.
C26_Witness ==
    /\ op = "build"
    /\ closed = <<1, 3>>
    /\ nextId = 3
    /\ popped.depth0 = 1
    /\ Len(stack) = 1

---------------------------------------------------------------------------
(* Claims about the order resolve_dependencies returns.                    *)
Occurrences(sq, x) == Cardinality({k \in DOMAIN sq : sq[k] = x})

\* C27: when resolve_dependencies succeeds its result is a permutation of
\* the registered items: as long as the list of items, with every item in
\* it exactly once, also an item several others depend on.
C27_ResultIsPermutation ==
    (op = "resolve" /\ res.ok) =>
        /\ Len(res.order) = Len(items)
        /\ \A i \in DOMAIN items : Occurrences(res.order, items[i]) = 1
        /\ \A k \in DOMAIN res.order : Occurrences(items, res.order[k]) = 1

\* B and C both mention A, registered last; resolution has succeeded with
\* A first and once.
C27_Witness ==
    /\ op = "resolve"
    /\ res.ok
    /\ items = <<ProjectItem(<<"B">>, Mention(<<"A">>), <<>>),
                 ProjectItem(<<"C">>, Mention(<<"A">>), <<>>),
                 ProjectItem(<<"A">>, <<Chunk>>, <<>>)>>
    /\ AllNames(res.order) = << <<"A">>, <<"B">>, <<"C">> >>

NoDependencies(its) ==
    \A i \in DOMAIN its :
        /\ its[i].dependencies = <<>>
        /\ \A j \in DOMAIN its : ~DependsOn(its[i], its[j])

\* C28: when no item declares a dependency and no item's script holds the
\* name of another named item, resolution of items with distinct names
\* succeeds and returns the items in the order they were registered.
C28_NoDependenciesKeepsOrder ==
    (op = "resolve" /\ NoDependencies(items)) =>
        /\ res.ok = UniqueNames(items)
        /\ res.ok => res.order = items

\* Three items without dependencies, a fragment among them, have been
\* resolved.
C28_Witness ==
    /\ op = "resolve"
    /\ res.ok
    /\ NoDependencies(items)
    /\ AllNames(items) = << <<"B">>, ScriptPrefix \o to_string(0), <<"A">> >>

---------------------------------------------------------------------------
(* Claims about literal handles in the linking phase.                      *)

\* C29: no connection statement of a built script has a literal as its
\* source: a literal bound to a node input (the iteration count of a zone)
\* is written as a default-value assignment in the creation phase, and a
\* literal given as an initial or result element of repeat_zone is recorded
\* as a default-value assignment to its slot, with no connection to it.
C29_NoLiteralConnection ==
    /\ op = "build" =>
          /\ \A j \in DOMAIN code : code[j].t = "link" => code[j].expr.kind # "lit"
          /\ \A k \in DOMAIN ret : \A i \in DOMAIN ret[k].inputs :
                ret[k].inputs[i].is_literal =>
                    \E j \in AssignsTo(ret[k].name, i) :
                        code[j].expr = ret[k].inputs[i].expr
    /\ (op = "repeat_zone_enter" /\ ret[1].is_literal) =>
          /\ nodes[zinfo.zin].inputs[0].is_literal
          /\ nodes[zinfo.zin].inputs[0].expr = ret[1].python_expr
    /\ op \in {"repeat_zone_enter", "repeat_zone_leave"} =>
          \A k \in DOMAIN zinfo.given :
              zinfo.given[k].is_literal =>
                  LET dst == IF op = "repeat_zone_enter" THEN zinfo.zin ELSE zinfo.zout
                      slot == IF op = "repeat_zone_enter" THEN k ELSE k - 1
                  IN  /\ StInDefault(dst, slot, zinfo.given[k].python_expr)
                            \in Range(nodes[dst].custom_links_script)
                      /\ \A e \in Range(nodes[dst].custom_links_script) :
                            e.t = "link" => e.idx # slot

\* A build has rendered a zone with a literal count and a literal among
\* its elements: the creation phase and the linking phase each hold a
\* default-value assignment of a literal, and the linking phase a
\* connection.
C29_Witness ==
    /\ op = "build"
    /\ \E j \in LinkingBlock : code[j].t = "in_default" /\ code[j].expr.kind = "lit"
    /\ \E j \in LinkingBlock : code[j].t = "link"
    /\ \E j \in CreationBlock : code[j].t = "in_default" /\ code[j].expr.kind = "lit"

===========================================================================
